---- MODULE Spec2Model ----
(***************************************************************************)
(* GPU resource and frame-execution layer of rikka-engine.                 *)
(*                                                                         *)
(* Two state machines share this module:                                   *)
(*   SpecBuffer  the resource layer, rikka_gpu/src/buffer.rs               *)
(*               (Buffer::create / Buffer::destroy against the device and  *)
(*               the allocator);                                           *)
(*   Spec        the application frame loop, rikka/src/app.rs and          *)
(*               rikka/src/main.rs (RikkaApp::render, update_view, Drop),  *)
(*               running against the frame orchestrator, the command       *)
(*               recording layer and the deletion queue, whose sources are *)
(*               not part of the tree and are modelled from sections 4.4,  *)
(*               4.5 and 4.6 of the specification.                         *)
(***************************************************************************)
EXTENDS Integers, Sequences, FiniteSets

VARIABLES
    \* ---- resource layer (buffer.rs) ----
    live_handles,     \* vk::Buffer handles created and not destroyed on the device
    allocations,      \* allocations held by the allocator
    buffers,          \* Buffer objects owned by callers
    hist,             \* the last Buffer call, with the state before it
    \* ---- frame layer (app.rs, main.rs) ----
    ring_n,           \* N, the number of frame slots
    mesh_draws,       \* mesh draws of the scene with complete textures
    frame_count,      \* index of the frame being produced
    pc,               \* position of the application thread
    slots,            \* per slot: state and the frame it holds
    gpu_next,         \* frames below this index have executed: their fences are signaled
    fence_observed,   \* frames whose fence the CPU has observed signaled
    uniform_data,     \* RikkaApp.uniform_data
    uniform_buffer,   \* contents of the mapped uniform buffer
    wrote,            \* per frame not yet executed: what copy_data_to_buffer wrote in its render call
    saw,              \* the last GPU read of the uniform buffer: [frame, wrote, read]
    in_flight_at_write, \* unsignaled submissions reading the buffer at the last CPU write
    window_extent,    \* extent of the window surface
    swap_extent,      \* extent of the swapchain
    depth_extent,     \* extent of RikkaApp.depth_image
    pipeline_extent,  \* extent baked into RikkaApp.graphics_pipeline
    last_acquire,     \* outcome of the last image acquisition
    current_image,    \* swapchain image acquired for the frame
    image_state,      \* tracked ResourceState per swapchain image
    last_barrier,     \* report of the last pipeline_barrier
    deletion_queue,   \* sequence of [res, frame]
    freed,            \* entries physically destroyed
    dropped,          \* fields of RikkaApp dropped so far, in order
    call_log,         \* calls made by the current render call, in order
    render_result     \* "none" | "running" | "ok" | "err"

bufVars == <<live_handles, allocations, buffers, hist>>

frameVars == <<ring_n, mesh_draws, frame_count, pc, slots, gpu_next, fence_observed,
    uniform_data, uniform_buffer, wrote, saw, in_flight_at_write,
    window_extent, swap_extent, depth_extent, pipeline_extent, last_acquire,
    current_image, image_state, last_barrier, deletion_queue, freed,
    dropped, call_log, render_result>>

vars == <<bufVars, frameVars>>

(***************************************************************************)
(* Bounds of the model.                                                    *)
(***************************************************************************)
MaxSize == 2          \* desc.size ranges over 1..MaxSize
MaxHandles == 3       \* device handles and allocation slots available
MaxRing == 2          \* ring depths 1..MaxRing
MaxFrames == 3        \* render calls started
MaxRes == 2           \* transient resources handed to the deletion queue

(***************************************************************************)
(* Resource layer: Buffer::create and Buffer::destroy (buffer.rs).         *)
(***************************************************************************)
Handles == 1..MaxHandles

Sizes == 1..MaxSize

\* The points at which Buffer::create can return early through `?`.
FailPoints == {"none", "create_buffer", "allocate", "bind_buffer_memory"}

\* Alignment the device reports for buffer memory.
Alignment == 2

\* device.get_buffer_memory_requirements(raw).size: desc.size rounded up to the alignment.
get_buffer_memory_requirements(size) == ((size + Alignment - 1) \div Alignment) * Alignment

\* The memory location Buffer::create asks for.
Location(device_only) == IF device_only THEN "GpuOnly" ELSE "CpuToGpu"

\* The handle / allocation slot the device or the allocator hands out next.
Lowest(S) == CHOOSE h \in S : \A g \in S : h <= g

RECURSIVE SumBytes(_)
SumBytes(S) ==
    IF S = {} THEN 0
    ELSE LET a == CHOOSE x \in S : TRUE IN a.size + SumBytes(S \ {a})

\* Total bytes the allocator holds.
AllocatedBytes == SumBytes(allocations)

AllocationIds == {a.id : a \in allocations}

\* Buffer::create(device, allocator, desc), with `fail` the call that returns an error.
Buffer_create(size, device_only, fail) ==
    /\ Handles \ live_handles # {}
    /\ Handles \ AllocationIds # {}
    /\ LET raw == Lowest(Handles \ live_handles)
           allocation == [id |-> Lowest(Handles \ AllocationIds),
                          size |-> get_buffer_memory_requirements(size),
                          location |-> Location(device_only)]
           failed == [op |-> "create_failed", handles0 |-> live_handles,
                      allocs0 |-> allocations, raw |-> 0]
       IN  CASE fail = "create_buffer" ->
                  \* device.raw().create_buffer(..)? returned the error
                  /\ hist' = failed
                  /\ UNCHANGED <<live_handles, allocations, buffers>>
             [] fail = "allocate" ->
                  \* allocator.lock().allocate(..)? returned the error: `raw` is a plain
                  \* handle, nothing destroys it on the way out
                  /\ live_handles' = live_handles \cup {raw}
                  /\ hist' = failed
                  /\ UNCHANGED <<allocations, buffers>>
             [] fail = "bind_buffer_memory" ->
                  \* bind_buffer_memory(..)? returned the error: handle and allocation stay
                  /\ live_handles' = live_handles \cup {raw}
                  /\ allocations' = allocations \cup {allocation}
                  /\ hist' = failed
                  /\ UNCHANGED buffers
             [] OTHER ->
                  /\ live_handles' = live_handles \cup {raw}
                  /\ allocations' = allocations \cup {allocation}
                  /\ buffers' = buffers \cup {[raw |-> raw, allocation |-> allocation,
                                               size |-> size, device_only |-> device_only]}
                  /\ hist' = [op |-> "create", handles0 |-> live_handles,
                              allocs0 |-> allocations, raw |-> raw]
    /\ UNCHANGED frameVars

\* What follows a destroy in the history: a round trip when it destroys the buffer the
\* call before it created.
DestroyHist(b) ==
    IF hist.op = "create" /\ hist.raw = b.raw
    THEN [hist EXCEPT !.op = "roundtrip"]
    ELSE [op |-> "destroy", handles0 |-> live_handles, allocs0 |-> allocations, raw |-> b.raw]

\* A destroy that forgets to return the allocation.
Buffer_destroy_no_free(b) ==
    /\ b \in buffers
    /\ live_handles' = live_handles \ {b.raw}
    /\ allocations' = allocations
    /\ buffers' = buffers \ {b}
    /\ hist' = DestroyHist(b)
    /\ UNCHANGED frameVars

\* Buffer::destroy(self): destroy_buffer(self.raw), then allocator.free(self.allocation).
Buffer_destroy(b) ==
    /\ b \in buffers
    /\ live_handles' = live_handles \ {b.raw}
    /\ allocations' = allocations \ {b.allocation}
    /\ buffers' = buffers \ {b}
    /\ hist' = DestroyHist(b)
    /\ UNCHANGED frameVars

CreateBuffer == \E size \in Sizes, device_only \in BOOLEAN, fail \in FailPoints :
    Buffer_create(size, device_only, fail)

DestroyBuffer == \E b \in buffers : Buffer_destroy(b)

InitBuffer ==
    /\ live_handles = {}
    /\ allocations = {}
    /\ buffers = {}
    /\ hist = [op |-> "none", handles0 |-> {}, allocs0 |-> {}, raw |-> 0]


(***************************************************************************)
(* Frame layer: the orchestrator, the command recording layer and the      *)
(* deletion queue (specification 4.4 - 4.6), driven by RikkaApp (app.rs).  *)
(***************************************************************************)
Frames == 0..(MaxFrames - 1)

Rings == 1..MaxRing

Resources == 1..MaxRes

\* Values the uniform data takes (a camera position stands for the 208 bytes).
Values == {1, 2}

\* Extents the window takes.
Extents == {1, 2}

\* Images of the swapchain.
Images == {0, 1}

\* Number of mesh draws in the loaded scene whose textures are complete.
DrawCounts == {0, 1}

ResourceState == {"UNDEFINED", "RENDER_TARGET", "PRESENT"}

NoBarrier == [image |-> -1, src |-> "UNDEFINED", dst |-> "UNDEFINED",
              tracked |-> "UNDEFINED", accepted |-> TRUE]

NoRead == [frame |-> -1, wrote |-> 0, read |-> 0]

\* Whether the rendering block records a draw that reads the uniform buffer (through
\* mesh_draw.descriptor_set, written from uniform_buffer in GltfScene::from_file).
ReadsUniform == mesh_draws > 0

\* Frames submitted whose fence has not signaled.
Executing == {f \in Frames : gpu_next <= f /\ f < frame_count}

\* Frames submitted and not yet confirmed complete by the CPU.
InFlight == {f \in Frames : f < frame_count /\ f \notin fence_observed}

\* The application thread is inside or between render calls.
Running == pc \notin {"halted", "drop", "fields", "exited"}

\* DeletionQueue::collect(retired_frame_index): the entries it destroys, and those it keeps.
CollectedOffByOne(q, retired) == {q[i] : i \in {j \in DOMAIN q : q[j].frame <= retired + 1}}

Collected(q, retired) == {q[i] : i \in {j \in DOMAIN q : q[j].frame <= retired}}

Kept(q, retired) == SelectSeq(q, LAMBDA e : e \notin Collected(q, retired))

\* command_buffer.pipeline_barrier(Barriers::new().add_image(image, src, dst)): the tracked
\* state of the image moves to dst when src is its last recorded state; otherwise the
\* transition is rejected and reported.
BarrierAlways(tracked, src, dst) == [state |-> dst, accepted |-> TRUE]

pipeline_barrier(tracked, src, dst) ==
    IF tracked = src
    THEN [state |-> dst, accepted |-> TRUE]
    ELSE [state |-> tracked, accepted |-> FALSE]

EmptySlots(n) == [i \in 0..(n - 1) |-> [state |-> "Idle", frame |-> -1]]

\* The state RikkaApp::new leaves: resources created at the extent of the window, no frame
\* begun, the uniform buffer not yet written.
InitFrame ==
    /\ ring_n \in Rings
    /\ mesh_draws \in DrawCounts
    /\ frame_count = 0
    /\ pc = "idle"
    /\ slots = EmptySlots(ring_n)
    /\ gpu_next = 0
    /\ fence_observed = {}
    /\ uniform_data = 1
    /\ uniform_buffer = 0
    /\ wrote = [f \in Frames |-> 0]
    /\ saw = NoRead
    /\ in_flight_at_write = 0
    /\ window_extent = 1
    /\ swap_extent = 1
    /\ depth_extent = 1
    /\ pipeline_extent = 1
    /\ last_acquire = "none"
    /\ current_image = 0
    /\ image_state = [i \in Images |-> "UNDEFINED"]
    /\ last_barrier = NoBarrier
    /\ deletion_queue = <<>>
    /\ freed = {}
    /\ dropped = <<>>
    /\ call_log = <<>>
    /\ render_result = "none"

Init == InitBuffer /\ InitFrame

\* Variables no step of render touches.
appFixed == <<ring_n, mesh_draws, depth_extent, pipeline_extent, window_extent, dropped>>

\* main, Event::MainEventsCleared: update_view with the camera's view, then render() is
\* entered.
MainEventsCleared ==
    /\ pc = "idle"
    /\ frame_count < MaxFrames
    /\ \E v \in Values : uniform_data' = v
    /\ pc' = "begin_frame"
    /\ call_log' = <<>>
    /\ render_result' = "running"
    /\ UNCHANGED <<appFixed, frame_count, slots, gpu_next, fence_observed, uniform_buffer,
                   wrote, saw, in_flight_at_write, swap_extent, last_acquire,
                   current_image, image_state, last_barrier, deletion_queue, freed>>
    /\ UNCHANGED bufVars

\* An early return of render through `?`: the error reaches render().unwrap() in main.
ReturnErr(call) ==
    /\ pc' = "halted"
    /\ call_log' = Append(call_log, call)
    /\ render_result' = "err"

\* Whether begin_frame may proceed: the fence of the slot's previous submission has signaled.
FenceNoWait(slot) == TRUE

FenceSignaled(slot) == slots[slot].state = "Submitted" => slots[slot].frame < gpu_next

\* Renderer::begin_frame: waits on the fence of slot (frame_count mod N), retires the
\* slot's previous frame and collects the deletion queue up to it, acquires a swapchain
\* image (recreating the swapchain when the acquisition is out of date, then acquiring
\* from the new one), and moves the slot to Recording.
begin_frame ==
    /\ pc = "begin_frame"
    /\ LET slot == frame_count % ring_n
           prior == slots[slot].frame
           retired == slots[slot].state = "Submitted"
           out_of_date == swap_extent # window_extent
       IN  /\ FenceSignaled(slot)
           /\ fence_observed' = IF retired THEN fence_observed \cup {prior} ELSE fence_observed
           /\ freed' = IF retired THEN freed \cup Collected(deletion_queue, prior) ELSE freed
           /\ deletion_queue' = IF retired THEN Kept(deletion_queue, prior) ELSE deletion_queue
           /\ swap_extent' = window_extent
           /\ last_acquire' = IF out_of_date THEN "out_of_date" ELSE "ok"
           /\ \E img \in Images :
                /\ current_image' = img
                /\ image_state' = IF out_of_date THEN [i \in Images |-> "UNDEFINED"]
                                  ELSE image_state
           /\ slots' = [slots EXCEPT ![slot] = [state |-> "Recording", frame |-> frame_count]]
    /\ pc' = "copy"
    /\ call_log' = Append(call_log, "begin_frame")
    /\ UNCHANGED <<appFixed, frame_count, gpu_next, uniform_data, uniform_buffer, wrote, saw,
                   in_flight_at_write, last_barrier, render_result>>
    /\ UNCHANGED bufVars

\* self.renderer.begin_frame()? returning an error other than out-of-date.
begin_frame_err ==
    /\ pc = "begin_frame"
    /\ ReturnErr("begin_frame")
    /\ UNCHANGED <<appFixed, frame_count, slots, gpu_next, fence_observed, uniform_data,
                   uniform_buffer, wrote, saw, in_flight_at_write, swap_extent, last_acquire,
                   current_image, image_state, last_barrier, deletion_queue, freed>>
    /\ UNCHANGED bufVars

\* self.uniform_buffer.copy_data_to_buffer(from_ref(&self.uniform_data)): a plain copy
\* into the mapped allocation, with no synchronization.
copy_data_to_buffer ==
    /\ pc = "copy"
    /\ uniform_buffer' = uniform_data
    /\ wrote' = [wrote EXCEPT ![frame_count] = uniform_data]
    /\ in_flight_at_write' = IF ReadsUniform THEN Cardinality(Executing) ELSE 0
    /\ pc' = "command_buffer"
    /\ call_log' = Append(call_log, "copy_data_to_buffer")
    /\ UNCHANGED <<appFixed, frame_count, slots, gpu_next, fence_observed, uniform_data, saw,
                   swap_extent, last_acquire, current_image, image_state, last_barrier,
                   deletion_queue, freed, render_result>>
    /\ UNCHANGED bufVars

\* Variables the recording steps leave alone.
recFixed == <<appFixed, frame_count, slots, gpu_next, fence_observed, uniform_data,
              uniform_buffer, wrote, saw, in_flight_at_write, swap_extent, last_acquire,
              current_image, deletion_queue, freed>>

\* A step of render that only moves on: `call` was made and returned Ok.
Proceed(call, next) ==
    /\ pc' = next
    /\ call_log' = Append(call_log, call)
    /\ UNCHANGED render_result

\* let command_buffer = self.renderer.command_buffer(0)?
command_buffer ==
    /\ pc = "command_buffer"
    /\ \/ Proceed("command_buffer", "begin")
       \/ ReturnErr("command_buffer")
    /\ UNCHANGED <<recFixed, image_state, last_barrier>>
    /\ UNCHANGED bufVars

\* command_buffer.begin()?
command_buffer_begin ==
    /\ pc = "begin"
    /\ \/ Proceed("begin", "barrier_render_target")
       \/ ReturnErr("begin")
    /\ UNCHANGED <<recFixed, image_state, last_barrier>>
    /\ UNCHANGED bufVars

\* One image barrier of render on the acquired swapchain image.
RecordBarrier(src, dst) ==
    LET r == pipeline_barrier(image_state[current_image], src, dst)
    IN  /\ image_state' = [image_state EXCEPT ![current_image] = r.state]
        /\ last_barrier' = [image |-> current_image, src |-> src, dst |-> dst,
                            tracked |-> image_state[current_image],
                            accepted |-> r.accepted]

\* The UNDEFINED -> RENDER_TARGET barrier on the current swapchain image.
barrier_render_target ==
    /\ pc = "barrier_render_target"
    /\ RecordBarrier("UNDEFINED", "RENDER_TARGET")
    /\ Proceed("pipeline_barrier", "rendering")
    /\ UNCHANGED recFixed
    /\ UNCHANGED bufVars

\* begin_rendering, bind_graphics_pipeline, the mesh draw loop, end_rendering: recordings
\* that return nothing and change no tracked state.
rendering ==
    /\ pc = "rendering"
    /\ Proceed("rendering", "barrier_present")
    /\ UNCHANGED <<recFixed, image_state, last_barrier>>
    /\ UNCHANGED bufVars

\* The RENDER_TARGET -> PRESENT barrier on the current swapchain image.
barrier_present ==
    /\ pc = "barrier_present"
    /\ RecordBarrier("RENDER_TARGET", "PRESENT")
    /\ Proceed("pipeline_barrier", "end")
    /\ UNCHANGED recFixed
    /\ UNCHANGED bufVars

\* A render that goes from command_buffer.end() straight to end_frame.
command_buffer_end_skip_queue ==
    /\ pc = "end"
    /\ \/ Proceed("end", "end_frame")
       \/ ReturnErr("end")
    /\ UNCHANGED <<recFixed, image_state, last_barrier>>
    /\ UNCHANGED bufVars

\* command_buffer.end()?
command_buffer_end ==
    /\ pc = "end"
    /\ \/ Proceed("end", "queue_command_buffer")
       \/ ReturnErr("end")
    /\ UNCHANGED <<recFixed, image_state, last_barrier>>
    /\ UNCHANGED bufVars

\* self.renderer.queue_command_buffer(command_buffer)
queue_command_buffer ==
    /\ pc = "queue_command_buffer"
    /\ Proceed("queue_command_buffer", "end_frame")
    /\ UNCHANGED <<recFixed, image_state, last_barrier>>
    /\ UNCHANGED bufVars

\* self.renderer.end_frame()?: submits the queued command buffer with the slot's fence,
\* presents, and advances the frame ring; render returns Ok.
end_frame ==
    /\ pc = "end_frame"
    /\ slots' = [slots EXCEPT ![frame_count % ring_n].state = "Submitted"]
    /\ frame_count' = frame_count + 1
    /\ pc' = "idle"
    /\ call_log' = Append(call_log, "end_frame")
    /\ render_result' = "ok"
    /\ UNCHANGED <<appFixed, gpu_next, fence_observed, uniform_data, uniform_buffer, wrote,
                   saw, in_flight_at_write, swap_extent, last_acquire, current_image,
                   image_state, last_barrier, deletion_queue, freed>>
    /\ UNCHANGED bufVars

\* self.renderer.end_frame()? returning an error: nothing was submitted.
end_frame_err ==
    /\ pc = "end_frame"
    /\ ReturnErr("end_frame")
    /\ UNCHANGED <<recFixed, image_state, last_barrier>>
    /\ UNCHANGED bufVars

\* The device executes the oldest submitted frame: its draws read the uniform buffer as it
\* is at that time, and the frame's fence signals.
gpu_execute ==
    /\ gpu_next < frame_count
    /\ saw' = IF ReadsUniform
              THEN [frame |-> gpu_next, wrote |-> wrote[gpu_next], read |-> uniform_buffer]
              ELSE saw
    /\ wrote' = [wrote EXCEPT ![gpu_next] = 0]
    /\ gpu_next' = gpu_next + 1
    /\ UNCHANGED <<appFixed, frame_count, pc, slots, fence_observed, uniform_data,
                   uniform_buffer, in_flight_at_write, swap_extent, last_acquire,
                   current_image, image_state, last_barrier, deletion_queue, freed,
                   call_log, render_result>>
    /\ UNCHANGED bufVars

\* The window is resized (the event loop delivers window events between two
\* MainEventsCleared): the next acquisition is out of date.
resize ==
    /\ pc = "idle"
    /\ \E e \in Extents \ {window_extent} : window_extent' = e
    /\ UNCHANGED <<ring_n, mesh_draws, depth_extent, pipeline_extent, dropped, frame_count,
                   pc, slots, gpu_next, fence_observed, uniform_data, uniform_buffer, wrote,
                   saw, in_flight_at_write, swap_extent, last_acquire, current_image,
                   image_state, last_barrier, deletion_queue, freed, call_log, render_result>>
    /\ UNCHANGED bufVars

\* Resources handed to the deletion queue or already destroyed by it.
Requested == {deletion_queue[i].res : i \in DOMAIN deletion_queue} \cup {e.res : e \in freed}

\* DeletionQueue::request_destroy(resource, current_frame_index), called by the application
\* thread between two render calls or while it records a frame.
request_destroy ==
    /\ pc \in {"idle", "rendering"}
    /\ frame_count < MaxFrames
    /\ \E r \in Resources \ Requested :
         deletion_queue' = Append(deletion_queue, [res |-> r, frame |-> frame_count])
    /\ UNCHANGED <<appFixed, frame_count, pc, slots, gpu_next, fence_observed, uniform_data,
                   uniform_buffer, wrote, saw, in_flight_at_write, swap_extent, last_acquire,
                   current_image, image_state, last_barrier, freed, call_log, render_result>>
    /\ UNCHANGED bufVars

\* Variables teardown leaves alone.
dropFixed == <<ring_n, mesh_draws, depth_extent, pipeline_extent, window_extent, frame_count,
               slots, gpu_next, fence_observed, uniform_data, uniform_buffer, wrote, saw,
               in_flight_at_write, swap_extent, last_acquire, current_image, image_state,
               last_barrier, deletion_queue, freed, call_log, render_result>>

\* main: CloseRequested or Escape sets ControlFlow::Exit between two render calls, or
\* render().unwrap() panics on an error; either way rikka_app is dropped.
exit ==
    /\ pc \in {"idle", "halted"}
    /\ pc' = "drop"
    /\ UNCHANGED <<dropFixed, dropped>>
    /\ UNCHANGED bufVars

\* The fields of RikkaApp in declaration order, the order Rust drops them in.
FieldOrder == <<"uniform_buffer", "zero_buffer", "graphics_pipeline", "uniform_data",
                "gltf_scene", "depth_image", "renderer">>

\* self.renderer.wait_idle() returns once the device has finished every submitted frame.
wait_idle == gpu_next = frame_count

\* A Drop for RikkaApp without the wait: the fields are dropped at once.
drop_no_wait ==
    /\ pc = "drop"
    /\ pc' = "fields"
    /\ UNCHANGED <<dropFixed, dropped>>
    /\ UNCHANGED bufVars

\* impl Drop for RikkaApp: drop() waits for the device to be idle.
drop ==
    /\ pc = "drop"
    /\ wait_idle
    /\ pc' = "fields"
    /\ UNCHANGED <<dropFixed, dropped>>
    /\ UNCHANGED bufVars

\* After drop() the fields are dropped one by one, in declaration order.
drop_field ==
    /\ pc = "fields"
    /\ dropped' = Append(dropped, FieldOrder[Len(dropped) + 1])
    /\ pc' = IF Len(dropped) + 1 = Len(FieldOrder) THEN "exited" ELSE "fields"
    /\ UNCHANGED dropFixed
    /\ UNCHANGED bufVars

Next ==
    \/ MainEventsCleared
    \/ begin_frame
    \/ begin_frame_err
    \/ copy_data_to_buffer
    \/ command_buffer
    \/ command_buffer_begin
    \/ barrier_render_target
    \/ rendering
    \/ barrier_present
    \/ command_buffer_end
    \/ queue_command_buffer
    \/ end_frame
    \/ end_frame_err
    \/ gpu_execute
    \/ resize
    \/ exit
    \/ drop
    \/ drop_field

Spec == Init /\ [][Next]_vars

\* The frame loop with an application that hands resources to the deletion queue: render
\* calls, the device, and request_destroy between and during frames.
NextDeletion ==
    \/ MainEventsCleared
    \/ begin_frame
    \/ copy_data_to_buffer
    \/ command_buffer
    \/ command_buffer_begin
    \/ barrier_render_target
    \/ rendering
    \/ barrier_present
    \/ command_buffer_end
    \/ queue_command_buffer
    \/ end_frame
    \/ gpu_execute
    \/ request_destroy

SpecDeletion == Init /\ [][NextDeletion]_vars

NextBuffer == CreateBuffer \/ DestroyBuffer

\* The resource layer on its own: the frame layer stays in one initial state.
InitResource ==
    /\ InitBuffer
    /\ InitFrame
    /\ ring_n = 1
    /\ mesh_draws = 0

SpecBuffer == InitResource /\ [][NextBuffer]_vars

(***************************************************************************)
(* Properties.                                                             *)
(***************************************************************************)
Range(q) == {q[i] : i \in DOMAIN q}

IsPrefix(p, q) == Len(p) <= Len(q) /\ \A i \in DOMAIN p : p[i] = q[i]

\* C1: with N slots, a slot records frame k >= N only once the fence of frame k-N has
\* signaled and been observed; the (N+1)-th begin_frame cannot proceed while the 1st
\* frame's fence is unsignaled; and at most N frames are submitted and unsignaled, or
\* submitted and not yet retired, at any time.
RingBound ==
    /\ \A s \in DOMAIN slots :
         (slots[s].state = "Recording" /\ slots[s].frame >= ring_n) =>
            /\ slots[s].frame - ring_n < gpu_next
            /\ (slots[s].frame - ring_n) \in fence_observed
    /\ (pc = "begin_frame" /\ frame_count >= ring_n /\ gpu_next <= frame_count - ring_n)
         => ~ENABLED begin_frame
    /\ Cardinality(Executing) <= ring_n
    /\ Cardinality(InFlight) <= ring_n

\* The (N+1)-th begin_frame of a ring of two or more slots has returned.
RingRecycled ==
    \E s \in DOMAIN slots :
        slots[s].state = "Recording" /\ slots[s].frame = ring_n /\ ring_n >= 2

BarrierValidation ==
    [][(pc \in {"barrier_render_target", "barrier_present"} /\ pc' # pc) =>
         LET b == last_barrier'
             tracked == image_state[current_image]
         IN  /\ b.image = current_image
             /\ b.tracked = tracked
             /\ (tracked = b.src => (image_state'[current_image] = b.dst /\ b.accepted))
             /\ (tracked # b.src => (image_state' = image_state /\ ~b.accepted))]_vars

\* A barrier whose source state was stale has been rejected.
StaleBarrierRejected ==
    /\ last_barrier.image \in Images
    /\ ~last_barrier.accepted
    /\ last_barrier.tracked = "PRESENT"
    /\ last_barrier.src = "UNDEFINED"

\* C4: the GPU read of the uniform buffer by a frame observes the data written by the
\* copy_data_to_buffer of the render call that submitted the frame.
ReadSeesOwnWrite == saw.frame # -1 => saw.read = saw.wrote

\* C5: once an acquisition was out of date, the swapchain has been recreated and the depth
\* image and the pipeline extent match the recreated swapchain.
OutOfDateRecreatesDependents ==
    last_acquire = "out_of_date" =>
        /\ depth_extent = swap_extent
        /\ pipeline_extent = swap_extent

\* C6: Buffer::create followed immediately by destroy of the created buffer leaves the
\* allocator's total allocated bytes and the set of live device handles as they were
\* before the create.
CreateDestroyRoundTrip ==
    hist.op = "roundtrip" =>
        /\ AllocatedBytes = SumBytes(hist.allocs0)
        /\ live_handles = hist.handles0

\* A round trip was made while other buffers were live.
RoundTripAmongOthers == hist.op = "roundtrip" /\ hist.handles0 # {} /\ hist.allocs0 # {}

\* C7: after Buffer::create returned an error, no device handle and no allocation made by
\* that call remains.
CreateFailsAtomically ==
    hist.op = "create_failed" =>
        /\ live_handles = hist.handles0
        /\ allocations = hist.allocs0

\* The calls a render call makes, in order.
RenderCalls == <<"begin_frame", "copy_data_to_buffer", "command_buffer", "begin",
                 "pipeline_barrier", "rendering", "pipeline_barrier", "end",
                 "queue_command_buffer", "end_frame">>

\* The calls of render that return a Result.
Fallible == {"begin_frame", "command_buffer", "begin", "end", "end_frame"}

\* C8 as stated: a render call that has completed begin_frame and has returned, with Ok or
\* with an error, has called queue_command_buffer and end_frame.
RenderAlwaysEndsFrame ==
    (render_result \in {"ok", "err"} /\ Len(call_log) >= 2) =>
        /\ "queue_command_buffer" \in Range(call_log)
        /\ "end_frame" \in Range(call_log)

\* C8 as amended: the calls of a render call are made in the order of RenderCalls, each at
\* most once; a render that returns Ok made all of them; a render that returns an error
\* stopped at the fallible call that failed, and no render call follows it.
RenderSequence ==
    /\ IsPrefix(call_log, RenderCalls)
    /\ render_result = "ok" => call_log = RenderCalls
    /\ render_result = "err" =>
         /\ call_log # <<>>
         /\ call_log[Len(call_log)] \in Fallible
         /\ ~Running

\* A render call failed while recording, after begin_frame and after an earlier frame
\* was rendered: it returned without queue_command_buffer and end_frame.
RenderFailedMidFrame ==
    /\ render_result = "err"
    /\ frame_count >= 1
    /\ Len(call_log) >= 2
    /\ "end_frame" \notin Range(call_log)

\* The fields of RikkaApp that own device resources, other than the renderer.
DeviceResources == {"uniform_buffer", "zero_buffer", "graphics_pipeline", "gltf_scene",
                    "depth_image"}

\* C9: no field of RikkaApp is dropped while a submitted frame is still executing, and the
\* renderer is dropped after the uniform buffer, the zero buffer, the pipeline, the scene
\* and the depth image.
TeardownOrder ==
    /\ dropped # <<>> => Executing = {}
    /\ \A i \in DOMAIN dropped :
         dropped[i] = "renderer" =>
            DeviceResources \subseteq {dropped[j] : j \in 1..(i - 1)}

\* The application has been torn down after submitting frames.
TornDownAfterFrames == pc = "exited" /\ "renderer" \in Range(dropped) /\ frame_count >= 2

\* C10: at the moment copy_data_to_buffer writes the uniform buffer, no submitted frame
\* that reads the buffer has an unsignaled fence.
NoWriteWhileInFlight == in_flight_at_write = 0

\* C11: every image barrier render records declares as its source the state the acquired
\* swapchain image was last left in, so none is rejected, and a frame that has been
\* submitted leaves its image in PRESENT.
BarriersMatchTrackedState ==
    /\ last_barrier.image \in Images =>
         /\ last_barrier.src = last_barrier.tracked
         /\ last_barrier.accepted
    /\ render_result = "ok" => image_state[current_image] = "PRESENT"

====
